---- MODULE Spec2Model ----
(***************************************************************************)
(* State-machine model of panel/widgets/file_selector.py: the FileSelector *)
(* browser (navigation history, clamping to the root directory, listing    *)
(* production, selection reconciliation, periodic refresh timer), the      *)
(* FileTree and the listing of the LocalFileProvider.                      *)
(*                                                                         *)
(* A path string is modelled as the sequence of its segments ("/" is <<>>, *)
(* "/d/s" is <<"d","s">>); Str gives the character string of a path, so    *)
(* that str.startswith, basename().startswith('.'), fnmatch and sorted()   *)
(* are computed on characters as the code computes them.                   *)
(***************************************************************************)
EXTENDS Integers, Sequences, FiniteSets, TLC

(***************************************************************************)
(* Bounds of the model.                                                    *)
(***************************************************************************)
\* longest history (_stack) the go/up/double-click pushes may build
MaxStack == 3
\* how far below 0 the back button may drive _position
MaxUnder == 3
\* longest selection (value) the UI may build
MaxSel == 2

\* the most segments of a path handed to LocalFileProvider.ls on its own
MaxPath == 2

(***************************************************************************)
(* Characters and strings.                                                 *)
(***************************************************************************)
\* the characters in use, in code-point order (str comparison of sorted())
CharOrder == <<".", "/", "2", "a", "b", "c", "d", "e", "f", "g", "h", "l", "s", "t">>

Ord(c) == CHOOSE i \in 1..Len(CharOrder) : CharOrder[i] = c

\* the characters of a path segment
Chars(n) ==
  CASE n = "d"   -> <<"d">>
    [] n = "d2"  -> <<"d", "2">>
    [] n = "e"   -> <<"e">>
    [] n = "s"   -> <<"s">>
    [] n = "a.t" -> <<"a", ".", "t">>
    [] n = "b.c" -> <<"b", ".", "c">>
    [] n = ".h"  -> <<".", "h">>
    [] n = "f.t" -> <<"f", ".", "t">>
    [] n = "ld"  -> <<"l", "d">>
    [] n = "lf"  -> <<"l", "f">>
    [] n = "lb"  -> <<"l", "b">>
    [] n = "."   -> <<".">>
    [] n = ".."  -> <<".", ".">>

RECURSIVE Str(_)
\* the string of an absolute path: os.path.sep joined segments
Str(p) ==
  IF p = <<>> THEN <<"/">>
  ELSE IF Len(p) = 1 THEN <<"/">> \o Chars(p[1])
  ELSE Str(SubSeq(p, 1, Len(p) - 1)) \o <<"/">> \o Chars(p[Len(p)])

\* str.startswith
StartsWith(s, t) == Len(s) >= Len(t) /\ SubSeq(s, 1, Len(t)) = t

RECURSIVE StrLess(_, _)
\* s < t for Python strings (lexicographic by code point)
StrLess(s, t) ==
  IF t = <<>> THEN FALSE
  ELSE IF s = <<>> THEN TRUE
  ELSE IF s[1] = t[1] THEN StrLess(Tail(s), Tail(t))
  ELSE Ord(s[1]) < Ord(t[1])

RECURSIVE Insert(_, _)
Insert(p, sorted) ==
  IF sorted = <<>> THEN <<p>>
  ELSE IF StrLess(Str(p), Str(sorted[1])) THEN <<p>> \o sorted
  ELSE <<sorted[1]>> \o Insert(p, Tail(sorted))

RECURSIVE Sorted(_)
\* sorted(list of path strings)
Sorted(ps) == IF ps = <<>> THEN <<>> ELSE Insert(ps[1], Sorted(Tail(ps)))

RECURSIVE fnmatch(_, _)
\* fnmatch.fnmatch(name, pattern) on POSIX; a pattern is a sequence of
\* tokens: "*", "?", "[!.]" or a literal character
fnmatch(name, pat) ==
  IF pat = <<>> THEN name = <<>>
  ELSE IF pat[1] = "*"
    THEN fnmatch(name, Tail(pat)) \/ (name # <<>> /\ fnmatch(Tail(name), pat))
  ELSE IF name = <<>> THEN FALSE
  ELSE IF pat[1] = "?" THEN fnmatch(Tail(name), Tail(pat))
  ELSE IF pat[1] = "[!.]" THEN name[1] # "." /\ fnmatch(Tail(name), Tail(pat))
  ELSE name[1] = pat[1] /\ fnmatch(Tail(name), Tail(pat))

(***************************************************************************)
(* Paths.                                                                  *)
(***************************************************************************)
Member(x, seq) == \E i \in 1..Len(seq) : seq[i] = x

Parent(p) == SubSeq(p, 1, Len(p) - 1)

Basename(p) == IF p = <<>> THEN <<>> ELSE Chars(p[Len(p)])

\* one more segment after a normalized head
Step(head, last) ==
  IF last = "." THEN head
  ELSE IF last = ".." THEN (IF head = <<>> THEN <<>> ELSE Parent(head))
  ELSE Append(head, last)

RECURSIVE normpath(_)
\* os.path.normpath of an absolute path: "." dropped, ".." pops a segment
normpath(raw) ==
  IF raw = <<>> THEN <<>>
  ELSE Step(normpath(SubSeq(raw, 1, Len(raw) - 1)), raw[Len(raw)])

\* panel.util.fullpath: os.path.abspath(os.path.expanduser(path))
fullpath(raw) == normpath(raw)

\* LocalFileProvider.normalize on an absolute path
normalize(raw) == normpath(raw)

RECURSIVE CommonLen(_, _)
CommonLen(p, q) ==
  IF p = <<>> \/ q = <<>> \/ p[1] # q[1] THEN 0
  ELSE 1 + CommonLen(Tail(p), Tail(q))

\* os.path.relpath(f, start): the segments of the relative path
relpath(f, start) ==
  IF f = start THEN <<".">>
  ELSE [k \in 1..(Len(start) - CommonLen(f, start)) |-> ".."]
       \o SubSeq(f, CommonLen(f, start) + 1, Len(f))

\* the ascend pseudo-entry '..' and the option shown for an invalid path
Ascend == <<"..">>
NotValid == <<"Entered path is not valid">>

(***************************************************************************)
(* The filesystem the widget browses (its environment, fixed during a      *)
(* behaviour), in the order os.listdir reports the entries.                *)
(*   /d   : b.c  s/  a.t  .h                                               *)
(*   /d/s : lf -> /d/s/f.t   f.t                                           *)
(*   /d2  : a.t                                                            *)
(*   /e   : ld -> /d/s   a.t   lb -> (missing)   lf -> /d/a.t              *)
(***************************************************************************)
FsEntries == <<
  [path |-> <<"d2">>,           kind |-> "dir",  target |-> <<>>],
  [path |-> <<"d">>,            kind |-> "dir",  target |-> <<>>],
  [path |-> <<"e">>,            kind |-> "dir",  target |-> <<>>],
  [path |-> <<"d", "b.c">>,     kind |-> "file", target |-> <<>>],
  [path |-> <<"d", "s">>,       kind |-> "dir",  target |-> <<>>],
  [path |-> <<"d", "a.t">>,     kind |-> "file", target |-> <<>>],
  [path |-> <<"d", ".h">>,      kind |-> "file", target |-> <<>>],
  [path |-> <<"d", "s", "lf">>, kind |-> "link", target |-> <<"d", "s", "f.t">>],
  [path |-> <<"d", "s", "f.t">>, kind |-> "file", target |-> <<>>],
  [path |-> <<"d2", "a.t">>,    kind |-> "file", target |-> <<>>],
  [path |-> <<"e", "ld">>,      kind |-> "link", target |-> <<"d", "s">>],
  [path |-> <<"e", "a.t">>,     kind |-> "file", target |-> <<>>],
  [path |-> <<"e", "lb">>,      kind |-> "link", target |-> <<"e", "f.t">>],
  [path |-> <<"e", "lf">>,      kind |-> "link", target |-> <<"d", "a.t">>] >>

FsIndex == 1..Len(FsEntries)

\* the kind of the entry stored at exactly this path ("none" if there is none)
KindAt(p) ==
  IF p = <<>> THEN "dir"
  ELSE IF \E i \in FsIndex : FsEntries[i].path = p
    THEN FsEntries[CHOOSE i \in FsIndex : FsEntries[i].path = p].kind
  ELSE "none"

TargetAt(p) == FsEntries[CHOOSE i \in FsIndex : FsEntries[i].path = p].target

\* the target of a symbolic link, any other path as it is
Follow(q) == IF KindAt(q) = "link" THEN TargetAt(q) ELSE q

RECURSIVE realpath(_)
\* os.path.realpath: every symbolic link on the way is followed
realpath(p) ==
  IF p = <<>> THEN <<>> ELSE Follow(Append(realpath(Parent(p)), p[Len(p)]))

\* os.path.islink: the parent is resolved, the last segment is not
islink(p) == p # <<>> /\ KindAt(Append(realpath(Parent(p)), p[Len(p)])) = "link"

\* os.path.isdir / os.path.isfile follow symbolic links
isdir(p) == KindAt(realpath(p)) = "dir"

isfile(p) == KindAt(realpath(p)) = "file"

\* the entries of the directory stored at real
EntriesOf(real) == SelectSeq(FsEntries, LAMBDA e : Parent(e.path) = real)

\* os.path.join(path, p) for each entry
Joined(path, entries) ==
  [i \in 1..Len(entries) |-> Append(path, entries[i].path[Len(entries[i].path)])]

\* os.listdir(path) joined to path: [os.path.join(path, p) for p in os.listdir(path)]
ListPaths(path) == Joined(path, EntriesOf(realpath(path)))

\* LinkDirs that takes the links to directories only
LinkDirs_ToDirsOnly(paths) == SelectSeq(paths, LAMBDA p : islink(p) /\ isdir(realpath(p)))

\* what the loop of _scan_path appends to dirs: every symbolic link whose
\* target is a directory or a file
LinkDirs(paths) ==
  SelectSeq(paths, LAMBDA p : islink(p) /\ (isdir(realpath(p)) \/ isfile(realpath(p))))

\* _scan_path(path, file_pattern) = (dirs, files)
scan_dirs(path) == SelectSeq(ListPaths(path), isdir) \o LinkDirs(ListPaths(path))

\* scan_files that takes every file, whatever its name
scan_files_AnyName(path, file_pattern) == SelectSeq(ListPaths(path), isfile)

scan_files(path, file_pattern) ==
  SelectSeq(ListPaths(path), LAMBDA p : isfile(p) /\ fnmatch(Basename(p), file_pattern))

\* LocalFileProvider.ls(path, file_pattern)
ls_dirs(path) == IF ~isdir(path) THEN <<>> ELSE scan_dirs(path)

ls_files(path, file_pattern) ==
  IF ~isdir(path) THEN <<>> ELSE scan_files(path, file_pattern)

(***************************************************************************)
(* The FileSelector widget.                                                *)
(***************************************************************************)
VARIABLES
  directory,          \* self.directory (normalized by BaseFileSelector.__init__)
  root_directory,     \* self.root_directory, None when not given
  file_pattern,       \* self.file_pattern
  only_files,         \* self.only_files
  show_hidden,        \* self.show_hidden
  refresh_period,     \* self.refresh_period
  value,              \* self.value
  selector_value,     \* self._selector.value
  selector_options,   \* self._selector.options: sequence of (label, path)
  selector_disabled,  \* self._selector.disabled
  dir_value,          \* self._directory.value, the pending directory text
  cwd,                \* self._cwd
  stack,              \* self._stack, the history
  position,           \* self._position
  back_disabled,      \* self._back.disabled
  forward_disabled,   \* self._forward.disabled
  up_disabled,        \* self._up.disabled
  go_disabled,        \* self._go.disabled
  periodic_running,   \* self._periodic.running
  periodic_period,    \* self._periodic.period
  periodic_call,      \* what the last handler called on self._periodic: "start", "stop" or ""
  raised,             \* the exception the last handler ended with, "" if none
  widget,             \* the class of the widget: "FileSelector" or "FileTree"
  max_depth,          \* FileTree.max_depth
  nodes,              \* FileTree._nodes
  listing,            \* the last call of LocalFileProvider.ls made on its own, and its result
  event               \* the last event handled and what it was given

vars == << directory, root_directory, file_pattern, only_files, show_hidden,
           refresh_period, value, selector_value, selector_options,
           selector_disabled, dir_value, cwd, stack, position, back_disabled,
           forward_disabled, up_disabled, go_disabled, periodic_running,
           periodic_period, periodic_call, raised, widget, max_depth, nodes, listing,
           event >>

\* None where a path string is expected
None == <<"None">>

\* refresh_period is <<>> for None and <<n>> for the integer n
NoPeriod == <<>>

\* the truth value Python gives a refresh period
Truthy(period) == period # NoPeriod /\ period[1] # 0

\* the widget as one record, so that a handler can call another
Self ==
  [ directory |-> directory, root_directory |-> root_directory,
    file_pattern |-> file_pattern, only_files |-> only_files,
    show_hidden |-> show_hidden, refresh_period |-> refresh_period,
    value |-> value, selector_value |-> selector_value,
    selector_options |-> selector_options,
    selector_disabled |-> selector_disabled, dir_value |-> dir_value,
    cwd |-> cwd, stack |-> stack, position |-> position,
    back_disabled |-> back_disabled, forward_disabled |-> forward_disabled,
    up_disabled |-> up_disabled, go_disabled |-> go_disabled,
    periodic_running |-> periodic_running, periodic_period |-> periodic_period,
    periodic_call |-> periodic_call, raised |-> raised ]

\* the variables take the fields of w
Becomes(w) ==
  /\ directory' = w.directory
  /\ root_directory' = w.root_directory
  /\ file_pattern' = w.file_pattern
  /\ only_files' = w.only_files
  /\ show_hidden' = w.show_hidden
  /\ refresh_period' = w.refresh_period
  /\ value' = w.value
  /\ selector_value' = w.selector_value
  /\ selector_options' = w.selector_options
  /\ selector_disabled' = w.selector_disabled
  /\ dir_value' = w.dir_value
  /\ cwd' = w.cwd
  /\ stack' = w.stack
  /\ position' = w.position
  /\ back_disabled' = w.back_disabled
  /\ forward_disabled' = w.forward_disabled
  /\ up_disabled' = w.up_disabled
  /\ go_disabled' = w.go_disabled
  /\ periodic_running' = w.periodic_running
  /\ periodic_period' = w.periodic_period
  /\ periodic_call' = w.periodic_call
  /\ raised' = w.raised

\* FileSelector._root_directory: self.root_directory or self.directory
RootOf(w) == IF w.root_directory = None THEN w.directory ELSE w.root_directory

\* self._go.disabled = path == self._cwd
GoDisabled(w, path) == [w EXCEPT !.go_disabled = (path = w.cwd)]

\* FileSelector._dir_change as it runs nested, for the value that the outer
\* _dir_change has just stored: that value is normalized and starts with the
\* root, so neither assignment of lines 302 and 305 changes the field again
dir_change_nested(w, path) ==
  IF ~StartsWith(Str(path), Str(RootOf(w))) THEN [w EXCEPT !.dir_value = RootOf(w)]
  ELSE GoDisabled([w EXCEPT !.dir_value = path], path)

\* self._directory.value = raw from within _dir_change: when raw differs
\* from the stored value the watcher runs again, nested
Reassign(w, raw) ==
  IF raw = w.dir_value THEN w
  ELSE dir_change_nested([w EXCEPT !.dir_value = raw], fullpath(raw))

\* _dir_change from line 301 on, path being fullpath(self._directory.value)
Clamp(w, path) ==
  IF ~StartsWith(Str(path), Str(RootOf(w))) THEN Reassign(w, RootOf(w))
  ELSE GoDisabled(Reassign(w, path), path)

\* FileSelector._dir_change
dir_change(w) == Clamp(w, fullpath(w.dir_value))

\* self._directory.value = raw: the TextInput stores it and, when it differs
\* from the stored value, the watcher _dir_change runs
SetDirectoryValue(w, raw) ==
  IF raw = w.dir_value THEN w ELSE dir_change([w EXCEPT !.dir_value = raw])

\* check = os.path.realpath(s) if os.path.islink(s) else s
Check(s) == IF islink(s) THEN realpath(s) ELSE s

\* for s in selected: the selected paths that are (or resolve to) directories,
\* and those that are files, each in the order of the selection
SelectedDirs(selected) == SelectSeq(selected, LAMBDA s : isdir(Check(s)))

SelectedFiles(selected) ==
  SelectSeq(selected, LAMBDA s : ~isdir(Check(s)) /\ isfile(Check(s)))

\* Shown that looks for the dot at the start of the whole path
Shown_WholePath(p, hidden) == hidden \/ ~StartsWith(Str(p), <<".">>)

\* if self.show_hidden or not os.path.basename(p).startswith('.')
Shown(p, hidden) == hidden \/ ~StartsWith(Basename(p), <<".">>)

\* one entry of the options mapping: its label (marker glyph and relative
\* path) and the path it stands for
Option(mark, rel, path) == [mark |-> mark, rel |-> rel, path |-> path]

\* a key keeps the place of its first pair and takes the value of the last
Put(dict, pair) ==
  IF \E i \in 1..Len(dict) : dict[i].mark = pair.mark /\ dict[i].rel = pair.rel
    THEN [i \in 1..Len(dict) |->
            IF dict[i].mark = pair.mark /\ dict[i].rel = pair.rel THEN pair
            ELSE dict[i]]
  ELSE Append(dict, pair)

RECURSIVE DictOf(_)
\* dict(zip(abbreviated, paths))
DictOf(pairs) ==
  IF pairs = <<>> THEN <<>>
  ELSE Put(DictOf(SubSeq(pairs, 1, Len(pairs) - 1)), pairs[Len(pairs)])

\* abbreviated, zipped with paths: the folder glyph if f in dirs, then
\* os.path.relpath(f, self._cwd)
Abbreviated(paths, dirs, path) ==
  [i \in 1..Len(paths) |->
    Option(IF Member(paths[i], dirs) THEN "folder" ELSE "",
           relpath(paths[i], path), paths[i])]

\* WithAscend that inserts the ascend entry at the root too
WithAscend_Always(w, pairs) == <<Option("up", Ascend, Ascend)>> \o pairs

\* if not self._up.disabled: the ascend entry is inserted first
WithAscend(w, pairs) ==
  IF w.up_disabled THEN pairs ELSE <<Option("up", Ascend, Ascend)>> \o pairs

\* lines 344-356: the options made of the directories and files to show
Options(w, path, dirs, files) ==
  DictOf(WithAscend(w,
    Abbreviated(SelectSeq(Sorted(dirs) \o Sorted(files),
                          LAMBDA p : Shown(p, w.show_hidden)),
                dirs, path)))

\* Listing without the loop over the selected paths
Listing_ScanOnly(w, path) ==
  Options(w, path, ls_dirs(path), ls_files(path, w.file_pattern))

\* the listing of _update_files (lines 335-356): the scan of the directory
\* and the selected paths
Listing(w, path) ==
  Options(w, path, ls_dirs(path) \o SelectedDirs(w.value),
          ls_files(path, w.file_pattern) \o SelectedFiles(w.value))

\* IsRefresh without the test for the reload button
IsRefresh_ArgOnly(ev, refresh_arg) == refresh_arg

\* refresh = refresh or (event and getattr(event, 'obj', None) is self._reload);
\* ev is "none" for no event, "true" for the True the constructor and _go_up
\* pass, "go" or "reload" for a click of that button
IsRefresh(ev, refresh_arg) == refresh_arg \/ ev = "reload"

\* InvalidPath that also takes the entered path as the current directory
InvalidPath_Entered(w) ==
  [w EXCEPT !.selector_options = <<Option("", NotValid, NotValid)>>,
            !.selector_disabled = TRUE,
            !.cwd = normalize(w.dir_value)]

\* what _update_files leaves when the entered path is not a directory
InvalidPath(w) ==
  [w EXCEPT !.selector_options = <<Option("", NotValid, NotValid)>>,
            !.selector_disabled = TRUE]

\* Push that does not look at the top of the history
Push_Always(w, ev, path) ==
  IF ev # "none" THEN [w EXCEPT !.stack = Append(@, path), !.position = @ + 1]
  ELSE w

\* lines 322-324: a new directory is pushed on the history
Push(w, ev, path) ==
  IF ev # "none" /\ (w.stack = <<>> \/ path # w.stack[Len(w.stack)])
    THEN [w EXCEPT !.stack = Append(@, path), !.position = @ + 1]
  ELSE w

\* lines 326-333: the current directory and the buttons
Buttons(w, refresh, path) ==
  [w EXCEPT
     !.cwd = path,
     !.go_disabled = IF ~refresh THEN TRUE ELSE @,
     !.up_disabled = (path = RootOf(w)),
     !.forward_disabled = IF w.position = Len(w.stack) - 1 THEN TRUE ELSE @,
     !.back_disabled = IF 0 <= w.position /\ Len(w.stack) > 1 THEN FALSE ELSE @]

\* lines 335-358: the options and the value of the selector
Listed(w, path) ==
  [w EXCEPT !.selector_options = Listing(w, path), !.selector_value = w.value]

\* _update_files from line 316 on
Commit(w, ev, refresh, entered) ==
  IF refresh THEN Listed(Buttons(w, refresh, w.cwd), w.cwd)
  ELSE IF ~isdir(entered) THEN InvalidPath(w)
  ELSE Listed(Buttons(Push(w, ev, entered), refresh, entered), entered)

\* FileSelector._update_files(event, refresh)
update_files(w, ev, refresh_arg) ==
  Commit(w, ev, IsRefresh(ev, refresh_arg), normalize(w.dir_value))

\* _update_value that drops the ascend entry only
update_value_KeepsAll(w, new) ==
  [w EXCEPT !.selector_value = SelectSeq(new, LAMBDA v : v # Ascend),
            !.value = SelectSeq(new, LAMBDA v : v # Ascend)]

\* FileSelector._update_value: event.new is the selection the selector reports
update_value(w, new) ==
  [w EXCEPT
     !.selector_value =
        SelectSeq(new, LAMBDA v : v # Ascend /\ (~w.only_files \/ isfile(v))),
     !.value =
        SelectSeq(new, LAMBDA v : v # Ascend /\ (~w.only_files \/ isfile(v)))]

\* k in paths: the label of the option is that of a scanned path, the
\* folder glyph if p in dirs, then os.path.relpath(p, self._cwd)
InScan(o, dirs, scanned, path) ==
  \E i \in 1..Len(scanned) :
    /\ o.mark = (IF Member(scanned[i], dirs) THEN "folder" ELSE "")
    /\ o.rel = relpath(scanned[i], path)

\* (k, v) for k, v in options.items() if k in paths or v in self.value
Kept(w, dirs, files) ==
  SelectSeq(w.selector_options,
            LAMBDA o : InScan(o, dirs, dirs \o files, w.cwd) \/ Member(o.path, w.value))

\* prefix = [] if self._up.disabled else the ascend entry
Prefix(w) == IF w.up_disabled THEN <<>> ELSE <<Option("up", Ascend, Ascend)>>

\* _filter_denylist that keeps every option
filter_denylist_KeepsAll(w) ==
  [w EXCEPT !.selector_options =
     DictOf(Prefix(w) \o w.selector_options)]

\* FileSelector._filter_denylist: the options of the selector; the list of
\* unselected entries holds those of them that are not selected
filter_denylist(w) ==
  [w EXCEPT !.selector_options =
     DictOf(Prefix(w) \o Kept(w, ls_dirs(w.cwd), ls_files(w.cwd, w.file_pattern)))]

\* relpath = label.replace(folder glyph, '').replace(up glyph, ''), then
\* fullpath(os.path.join(self._cwd, relpath))
Resolved(w, option) == fullpath(w.cwd \o option.rel)

\* self._directory.value = sel if it is a directory, else self._cwd
Enter(w, sel) ==
  IF isdir(sel) THEN SetDirectoryValue(w, sel) ELSE SetDirectoryValue(w, w.cwd)

\* FileSelector._select: highlighted holds the labels highlighted in the
\* list of unselected options
select(w, highlighted) ==
  IF Len(highlighted) # 1 THEN SetDirectoryValue(w, w.cwd)
  ELSE Enter(w, Resolved(w, highlighted[1]))

\* seq[i] as Python indexes a list: negative indices count from the end
InRange(seq, i) == -Len(seq) <= i /\ i < Len(seq)

At(seq, i) == IF i >= 0 THEN seq[i + 1] ELSE seq[Len(seq) + i + 1]

\* Visit that lists without entering history[position] in the directory field
Visit_Stale(w) ==
  IF ~InRange(w.stack, w.position) THEN [w EXCEPT !.raised = "IndexError"]
  ELSE update_files(w, "none", FALSE)

\* self._directory.value = self._stack[self._position]; self._update_files()
Visit(w) ==
  IF ~InRange(w.stack, w.position) THEN [w EXCEPT !.raised = "IndexError"]
  ELSE update_files(SetDirectoryValue(w, At(w.stack, w.position)), "none", FALSE)

\* AfterBack that does not enable the forward button
AfterBack_ForwardKept(w) ==
  IF w.raised # "" THEN w
  ELSE [w EXCEPT !.back_disabled = IF w.position = 0 THEN TRUE ELSE @]

\* lines 396-398 of _go_back, not reached when line 394 raised
AfterBack(w) ==
  IF w.raised # "" THEN w
  ELSE [w EXCEPT !.forward_disabled = FALSE,
                 !.back_disabled = IF w.position = 0 THEN TRUE ELSE @]

\* FileSelector._go_back
go_back(w) == AfterBack(Visit([w EXCEPT !.position = @ - 1]))

\* FileSelector._go_forward
go_forward(w) == Visit([w EXCEPT !.position = @ + 1])

\* FileSelector._go_up: os.path.sep.join(self._cwd.split(os.path.sep)[:-1])
\* or os.path.sep; the split of a normalized path is '' and its segments
go_up(w) ==
  update_files(SetDirectoryValue(w, IF w.cwd = <<>> THEN <<>> ELSE Parent(w.cwd)),
               "true", FALSE)

\* FileSelector._select_and_go: a double click on an unselected option
select_and_go(w, option) ==
  IF option.rel = Ascend THEN go_up(w)
  ELSE update_files(Enter(w, Resolved(w, option)), "none", FALSE)

\* FileSelector._update_periodic: new is event.new; start and stop set the
\* running flag of the timer
update_periodic(w, new) ==
  IF Truthy(new)
    THEN [w EXCEPT !.periodic_period = new[1],
                   !.periodic_running = TRUE,
                   !.periodic_call = IF w.periodic_running THEN "" ELSE "start"]
  ELSE IF w.periodic_running
    THEN [w EXCEPT !.periodic_running = FALSE, !.periodic_call = "stop"]
  ELSE w

\* FileSelector._refresh, the callback of the periodic timer
refresh(w) == update_files(w, "none", TRUE)

(***************************************************************************)
(* The FileTree widget.                                                    *)
(***************************************************************************)
\* the directories a tree is rooted at, and the values of max_depth
TreeRoots == { <<>>, <<"e">> }

Depths == { 0, 1, 2 }

\* FileTree._exceed_max_depth: len(path.relative_to(self.directory).parents)
\* is the number of segments of path below the directory
exceed_max_depth(dir, depth, path) ==
  IF depth = 0 THEN FALSE ELSE Len(path) - Len(dir) >= depth

\* FileTree._get_paths: the provider lists with its default pattern '[!.]*'
get_paths_dirs(path) ==
  Sorted(SelectSeq(ls_dirs(path), LAMBDA d : ~StartsWith(Basename(d), <<".">>)))

get_paths_files(path) == Sorted(ls_files(path, <<"[!.]", "*">>))

\* a node as _to_json makes it; loaded tells children from None
TreeNode(id, parent, type, loaded, children, disabled) ==
  [id |-> id, parent |-> parent, type |-> type, loaded |-> loaded,
   children |-> children, disabled |-> disabled]

RECURSIVE get_children(_, _, _, _)
\* lines 463-475: the node of a subdirectory
DirNode(dir, depth, parent, budget, subdir) ==
  TreeNode(subdir, parent, "folder", budget > 0,
           IF budget > 0 THEN get_children(dir, depth, subdir, budget - 1) ELSE <<>>,
           exceed_max_depth(dir, depth, subdir))

\* lines 476-482: the node of a file
FileNode(parent, subfile) == TreeNode(subfile, parent, "file", FALSE, <<>>, FALSE)

\* the nodes of the directories, then those of the files
NodesOf(dir, depth, parent, budget, dirs, files) ==
  [i \in 1..Len(dirs) |-> DirNode(dir, depth, parent, budget, dirs[i])]
  \o [i \in 1..Len(files) |-> FileNode(parent, files[i])]

\* FileTree._get_children(text, directory, depth): budget is its depth argument
get_children(dir, depth, parent, budget) ==
  IF exceed_max_depth(dir, depth, parent) THEN <<>>
  ELSE NodesOf(dir, depth, parent, budget, get_paths_dirs(parent), get_paths_files(parent))

\* FileTree._set_data_from_directory: self._nodes
set_data_from_directory(dir, depth) ==
  << TreeNode(normalize(dir), None, "folder", TRUE, get_children(dir, depth, dir, 1), FALSE) >>

RECURSIVE Flat(_)
\* the nodes of a tree in the order they are indexed: a node, then its children
Flat(ns) ==
  IF ns = <<>> THEN <<>>
  ELSE <<ns[1]>> \o Flat(ns[1].children) \o Flat(Tail(ns))

\* self._index.get(node_id, {}).get("type"): the node indexed last under the id
IndexType(flat, id) ==
  IF \E i \in 1..Len(flat) : flat[i].id = id
    THEN flat[CHOOSE i \in 1..Len(flat) :
                flat[i].id = id /\ \A j \in (i + 1)..Len(flat) : flat[j].id # id].type
  ELSE "none"

\* FileTree._process_property_change: flat is the indexed nodes, new the
\* value of the message
process_property_change(w, flat, new) ==
  [w EXCEPT !.value =
     IF w.only_files THEN SelectSeq(new, LAMBDA id : IndexType(flat, id) = "file")
     ELSE new]

(***************************************************************************)
(* Construction.                                                           *)
(***************************************************************************)
\* the (root_directory, directory) pairs a widget is constructed with
Roots ==
  { [root |-> None,      dir |-> <<"d">>],
    [root |-> <<"d">>,   dir |-> <<"d", "s">>],
    [root |-> None,      dir |-> <<"d", "s">>] }

\* the file patterns: '*', '[!.]*' and '*.t'
Patterns == { <<"*">>, <<"[!.]", "*">>, <<"*", ".", "t">> }

\* the refresh periods: None or a positive number of milliseconds
Periods == { NoPeriod, <<500>> }

\* the texts typed into the directory field
RawInputs ==
  { <<"d">>, <<"d", "s">>, <<"d", "s", "..">>, <<"d", "..">>, <<"d2">>,
    <<"e">>, <<"d", "a.t">> }

\* FileSelector.__init__ up to the state set-up (lines 232-251)
Constructed(root, pattern, files_only, period) ==
  [ directory |-> root.dir, root_directory |-> root.root,
    file_pattern |-> pattern, only_files |-> files_only,
    show_hidden |-> FALSE, refresh_period |-> period,
    value |-> <<>>, selector_value |-> <<>>, selector_options |-> <<>>,
    selector_disabled |-> FALSE, dir_value |-> root.dir,
    cwd |-> None, stack |-> <<>>, position |-> -1,
    back_disabled |-> TRUE, forward_disabled |-> TRUE,
    up_disabled |-> TRUE, go_disabled |-> TRUE,
    periodic_running |-> FALSE, periodic_period |-> 0,
    periodic_call |-> "", raised |-> "" ]

\* the rest of FileSelector.__init__: the initial load and the timer
InitialLoad(w) ==
  LET w1 == update_files(w, "true", FALSE)
  IN  [w1 EXCEPT
         !.periodic_period = IF Truthy(w.refresh_period) THEN w.refresh_period[1] ELSE 0,
         !.periodic_running = Truthy(w.refresh_period),
         !.periodic_call = IF Truthy(w.refresh_period) THEN "start" ELSE ""]

Started(w) ==
  /\ directory = w.directory
  /\ root_directory = w.root_directory
  /\ file_pattern = w.file_pattern
  /\ only_files = w.only_files
  /\ show_hidden = w.show_hidden
  /\ refresh_period = w.refresh_period
  /\ value = w.value
  /\ selector_value = w.selector_value
  /\ selector_options = w.selector_options
  /\ selector_disabled = w.selector_disabled
  /\ dir_value = w.dir_value
  /\ cwd = w.cwd
  /\ stack = w.stack
  /\ position = w.position
  /\ back_disabled = w.back_disabled
  /\ forward_disabled = w.forward_disabled
  /\ up_disabled = w.up_disabled
  /\ go_disabled = w.go_disabled
  /\ periodic_running = w.periodic_running
  /\ periodic_period = w.periodic_period
  /\ periodic_call = w.periodic_call
  /\ raised = w.raised

\* an event: what it was given, and for a change of the selection the
\* selection it replaced
Event(op, arg) == [op |-> op, arg |-> arg, old |-> <<>>]

\* a call of LocalFileProvider.ls(path, pattern) on its own that is still to
\* be made
Pending(path, pattern) ==
  [path |-> path, pattern |-> pattern, called |-> FALSE, dirs |-> <<>>, files |-> <<>>]

\* no call of LocalFileProvider.ls on its own is made
NoListing == Pending(None, <<>>)

\* a FileSelector after FileSelector.__init__
InitSelector(root, pattern, files_only, period) ==
  /\ Started(InitialLoad(Constructed(root, pattern, files_only, period)))
  /\ widget = "FileSelector"
  /\ max_depth = 0
  /\ nodes = <<>>
  /\ listing = NoListing
  /\ event = Event("init", <<>>)

\* a FileTree after construction: the fields of a FileSelector are not there
\* (they keep the values of a FileSelector not yet loaded)
InitTree(dir, files_only, depth) ==
  /\ Started(Constructed([root |-> None, dir |-> dir], <<"*">>, files_only, NoPeriod))
  /\ widget = "FileTree"
  /\ max_depth = depth
  /\ nodes = set_data_from_directory(dir, depth)
  /\ listing = NoListing
  /\ event = Event("init", <<>>)

Init ==
  \/ \E root \in Roots, pattern \in Patterns, files_only \in BOOLEAN, period \in Periods :
       InitSelector(root, pattern, files_only, period)
  \/ \E dir \in TreeRoots, files_only \in BOOLEAN, depth \in Depths :
       InitTree(dir, files_only, depth)

(***************************************************************************)
(* The events.                                                             *)
(***************************************************************************)
\* the handler starts with no exception pending
Now == [Self EXCEPT !.raised = "", !.periodic_call = ""]

\* the bounds of the model on what a handler leaves
Bounded(w) ==
  /\ Len(w.stack) <= MaxStack
  /\ w.position >= -MaxUnder
  /\ Len(w.value) <= MaxSel

\* the handler has run: the widget is as it left it (within the bounds)
HandledOn(w, op, arg, old) ==
  \E after \in {w} :
    /\ Bounded(after)
    /\ Becomes(after)
    /\ UNCHANGED << widget, max_depth, nodes, listing >>
    /\ event' = [Event(op, arg) EXCEPT !.old = old]

Handled(w, op, arg) == HandledOn(w, op, arg, <<>>)

\* the events of the FileSelector
Selector(w, op, arg) == widget = "FileSelector" /\ Handled(w, op, arg)

\* a change of the selection shown by the selector: the watcher of its value
\* (_update_value) runs, then the watcher of the options of its list of
\* unselected entries (_filter_denylist)
Reselected(w, new) ==
  /\ widget = "FileSelector"
  /\ HandledOn(filter_denylist(update_value(w, new)), "update_value", new,
               w.selector_value)

\* the options of the list of unselected entries
Unselected == SelectSeq(selector_options, LAMBDA o : ~Member(o.path, selector_value))

\* the user edits the directory field (navigate)
Navigate == \E raw \in RawInputs : Selector(SetDirectoryValue(Now, raw), "navigate", raw)

\* the go button
Go == ~go_disabled /\ Selector(update_files(Now, "go", FALSE), "go", <<>>)

\* the reload button
Reload == Selector(update_files(Now, "reload", FALSE), "reload", <<>>)

\* the periodic timer fires
Refresh == periodic_running /\ Selector(refresh(Now), "refresh", <<>>)

\* the up, back and forward buttons
Up == ~up_disabled /\ Selector(go_up(Now), "up", <<>>)

Back == ~back_disabled /\ Selector(go_back(Now), "back", <<>>)

Forward == ~forward_disabled /\ Selector(go_forward(Now), "forward", <<>>)

\* a double click on an entry of the list of unselected options
DoubleClick ==
  /\ ~selector_disabled
  /\ \E i \in 1..Len(Unselected) :
       Selector(select_and_go(Now, Unselected[i]), "double_click", <<>>)

\* the highlighted entries of the list of unselected options change: to one
\* entry, or to none
Highlight ==
  /\ ~selector_disabled
  /\ \/ \E i \in 1..Len(Unselected) :
          Selector(select(Now, <<Unselected[i]>>), "highlight", <<>>)
     \/ Selector(select(Now, <<>>), "highlight", <<>>)

\* the user moves an entry to the selected list, or out of it
ChangeSelection ==
  /\ ~selector_disabled
  /\ \/ \E i \in 1..Len(Unselected) :
          Reselected(Now, Append(selector_value, Unselected[i].path))
     \/ \E i \in 1..Len(selector_value) :
          Reselected(Now, SubSeq(selector_value, 1, i - 1)
                          \o SubSeq(selector_value, i + 1, Len(selector_value)))

\* the application assigns show_hidden (no watcher runs)
SetShowHidden ==
  \E b \in BOOLEAN :
    /\ b # show_hidden
    /\ Selector([Now EXCEPT !.show_hidden = b], "show_hidden", <<>>)

\* the refresh periods assigned to a widget: None, zero, a negative and
\* positive numbers of milliseconds
AssignedPeriods == { NoPeriod, <<0>>, <<-100>>, <<500>>, <<1000>> }

\* the application assigns refresh_period: the watcher _update_periodic runs
\* when the value is a new one
SetRefreshPeriod ==
  \E new \in AssignedPeriods :
    Selector(IF new = refresh_period THEN Now
             ELSE update_periodic([Now EXCEPT !.refresh_period = new], new),
             "refresh_period", new)

\* the tree reports a new selection: a node is added to it, or removed
TreeSelect ==
  /\ widget = "FileTree"
  /\ \E flat \in {Flat(nodes)} :
       \/ \E i \in 1..Len(flat) :
            Handled(process_property_change(Now, flat, Append(value, flat[i].id)),
                    "tree_value", Append(value, flat[i].id))
       \/ \E i \in 1..Len(value) :
            Handled(process_property_change(Now, flat,
                      SubSeq(value, 1, i - 1) \o SubSeq(value, i + 1, Len(value))),
                    "tree_value",
                    SubSeq(value, 1, i - 1) \o SubSeq(value, i + 1, Len(value)))

Next ==
  \/ Navigate
  \/ Go
  \/ Reload
  \/ Refresh
  \/ Up
  \/ Back
  \/ Forward
  \/ DoubleClick
  \/ Highlight
  \/ ChangeSelection
  \/ SetShowHidden
  \/ SetRefreshPeriod
  \/ TreeSelect

Spec == Init /\ [][Next]_vars

\* navigation alone: every root, nothing selected
InitNav == \E root \in Roots : InitSelector(root, <<"*">>, FALSE, <<500>>)

NextNav ==
  \/ Navigate
  \/ Go
  \/ Reload
  \/ Refresh
  \/ Up
  \/ Back
  \/ Forward
  \/ DoubleClick
  \/ Highlight

SpecNav == InitNav /\ [][NextNav]_vars

\* selection: one root and a start below it, every pattern, with and without only_files, the
\* navigation the buttons and the double click give; and the tree
InitSel ==
  \/ \E pattern \in Patterns, files_only \in BOOLEAN :
       InitSelector([root |-> <<"d">>, dir |-> <<"d", "s">>], pattern, files_only,
                    NoPeriod)
  \/ \E dir \in TreeRoots, files_only \in BOOLEAN, depth \in Depths :
       InitTree(dir, files_only, depth)

NextSel ==
  \/ ChangeSelection
  \/ SetShowHidden
  \/ DoubleClick
  \/ Up
  \/ Reload
  \/ TreeSelect

SpecSel == InitSel /\ [][NextSel]_vars

\* the timer: a browser below its root, constructed with any period, that is
\* reloaded, refreshed and moved while refresh_period is assigned
InitTimer ==
  \E period \in AssignedPeriods :
    InitSelector([root |-> <<"d">>, dir |-> <<"d", "s">>], <<"*">>, FALSE, period)

NextTimer ==
  \/ SetRefreshPeriod
  \/ Refresh
  \/ Reload
  \/ Up
  \/ DoubleClick

SpecTimer == InitTimer /\ [][NextTimer]_vars

\* the names of the entries of the filesystem
SegmentNames == { FsEntries[i].path[Len(FsEntries[i].path)] : i \in FsIndex }

RECURSIVE PathsUpTo(_)
\* the paths of at most n segments made of these names, on the filesystem or not
PathsUpTo(n) ==
  IF n = 0 THEN { <<>> }
  ELSE PathsUpTo(n - 1)
       \cup { Append(p, a) : p \in PathsUpTo(n - 1), a \in SegmentNames }

\* LocalFileProvider.ls(path, file_pattern) = (dirs, files)
ls(path, pattern) ==
  [path |-> path, pattern |-> pattern, called |-> TRUE,
   dirs |-> ls_dirs(path), files |-> ls_files(path, pattern)]

\* the provider alone, with the arguments of the call to come: no widget is
\* loaded
InitLs ==
  /\ Started(Constructed([root |-> None, dir |-> <<>>], <<"*">>, FALSE, NoPeriod))
  /\ widget = "LocalFileProvider"
  /\ max_depth = 0
  /\ nodes = <<>>
  /\ \E path \in PathsUpTo(MaxPath), pattern \in Patterns :
       listing = Pending(path, pattern)
  /\ event = Event("init", <<>>)

\* the call of LocalFileProvider.ls
Ls ==
  /\ widget = "LocalFileProvider"
  /\ ~listing.called
  /\ listing' = ls(listing.path, listing.pattern)
  /\ event' = Event("ls", <<>>)
  /\ Becomes(Self)
  /\ UNCHANGED << widget, max_depth, nodes >>

NextLs == Ls

SpecLs == InitLs /\ [][NextLs]_vars

(***************************************************************************)
(* Properties of the navigation.                                           *)
(***************************************************************************)
\* the root directory of the widget
Root == RootOf(Self)

\* p is r or a descendant of r, path segment by path segment
Under(p, r) == Len(p) >= Len(r) /\ SubSeq(p, 1, Len(r)) = r

\* the options are the single entry shown for an invalid path
ShowsNotValid == selector_options = <<Option("", NotValid, NotValid)>>

\* C1: when the path entered in the directory field is neither the root nor a
\* descendant of it (segment by segment), the go that follows leaves
\* current_directory equal to the root, and no exception is raised.
C1_ClampedToRoot ==
  [][ (event.op = "navigate" /\ ~Under(fullpath(event.arg), Root)
       /\ event'.op = "go")
      => (cwd' = Root /\ raised' = "") ]_vars

\* C2: after a back or a forward that stayed within the history (no exception,
\* position an index of the history), current_directory is history[position].
C2_BackForwardFollowHistory ==
  (event.op \in {"back", "forward"} /\ raised = ""
   /\ 0 <= position /\ position < Len(stack))
    => cwd = stack[position + 1]

\* C2 witness: a forward after two backs in a history of three directories
C2_Witness ==
  /\ event.op = "forward"
  /\ Len(stack) = 3
  /\ position = 1
  /\ cwd = stack[2]
  /\ cwd # stack[3]

\* C3: in every state the back button is disabled exactly when position <= 0.
C3_BackDisabledIffAtStart == back_disabled <=> (position <= 0)

\* C4: in every state the forward button is disabled exactly when position is
\* the last index of the history.
C4_ForwardDisabledIffAtEnd == forward_disabled <=> (position = Len(stack) - 1)

\* C4 witness: forward is enabled after a back, and disabled again after the
\* forward that returns to the end of a longer history
C4_Witness ==
  /\ event.op = "forward"
  /\ forward_disabled
  /\ Len(stack) >= 2
  /\ position = Len(stack) - 1

\* C5: in every state reached by pressing enabled controls, position is a
\* valid index of the history.
C5_PositionIndexesHistory == 0 <= position /\ position < Len(stack)

\* C6: a reload or a periodic refresh leaves the history, the position and
\* current_directory as they were, whatever the directory field holds.
C6_RefreshKeepsHistory ==
  [][ event'.op \in {"reload", "refresh"}
      => (stack' = stack /\ position' = position /\ cwd' = cwd) ]_vars

\* C6 witness: a reload in the middle of the history while the directory
\* field holds another directory than the current one
C6_Witness ==
  /\ event.op = "reload"
  /\ dir_value # cwd
  /\ isdir(normalize(dir_value))
  /\ Len(stack) >= 2
  /\ position < Len(stack) - 1
  /\ dir_value # stack[Len(stack)]

\* C10: a go on a pending path that is not a directory raises nothing, leaves
\* the single option 'Entered path is not valid' and the selector disabled,
\* and changes neither current_directory nor the history nor the position.
C10_InvalidPathIsNotFatal ==
  [][ (event'.op = "go" /\ ~isdir(normalize(dir_value)))
      => (/\ raised' = ""
          /\ ShowsNotValid'
          /\ selector_disabled'
          /\ cwd' = cwd
          /\ stack' = stack
          /\ position' = position) ]_vars

\* C10 witness: the state a go on '/d/a.t' (a file) leaves
C10_Witness ==
  /\ event.op = "go"
  /\ ~isdir(normalize(dir_value))
  /\ ShowsNotValid
  /\ selector_disabled
  /\ cwd # dir_value

(***************************************************************************)
(* Properties of the selection and of the listing.                         *)
(***************************************************************************)
\* the events that end in a listing of a directory
Commits == {"go", "up", "back", "forward", "double_click", "reload", "refresh"}

\* the paths the options stand for
OptionPaths == { selector_options[i].path : i \in 1..Len(selector_options) }

\* the path is on the filesystem (a symbolic link: its target is)
Exists(p) == isdir(p) \/ isfile(p)

\* a commit of a valid directory has just listed it
Committed == event.op \in Commits /\ raised = "" /\ ~ShowsNotValid

\* C7 as claimed: every commit of a valid directory leaves value as it was
\* and lists every selected entry that exists on the filesystem.
C7_SelectedAlwaysListed ==
  [][ (widget = "FileSelector" /\ Committed')
      => (/\ value' = value
          /\ \A i \in 1..Len(value) :
               Exists(value[i]) => value[i] \in OptionPaths') ]_vars

\* C7 as amended: every commit of a valid directory leaves value as it was
\* and lists every selected entry that exists on the filesystem, unless
\* show_hidden is off and the basename of the entry starts with a dot.
C7_SelectedStayListed ==
  [][ (widget = "FileSelector" /\ Committed')
      => (/\ value' = value
          /\ \A i \in 1..Len(value) :
               (Exists(value[i]) /\ Shown(value[i], show_hidden))
                 => value[i] \in OptionPaths') ]_vars

\* C7 witness: after the up that returns to '/d' from '/d/s', a selected entry
\* of '/d/s' is among the options
C7_Witness ==
  /\ event.op = "up"
  /\ cwd = <<"d">>
  /\ \E i \in 1..Len(value) :
       /\ Parent(value[i]) # cwd
       /\ value[i] \in OptionPaths

\* C8: with only_files, after a selection change coming from the UI, value
\* holds no directory and no ascend entry: in the browser only files, in the
\* tree only node ids indexed with the type "file".
C8_OnlyFilesKeepsFiles ==
  (only_files /\ event.op \in {"update_value", "tree_value"})
    => \A i \in 1..Len(value) :
         /\ value[i] # Ascend
         /\ ~isdir(value[i])
         /\ widget = "FileSelector" => isfile(value[i])
         /\ widget = "FileTree" => IndexType(Flat(nodes), value[i]) = "file"

\* C8 witness: the browser reported a selection with a directory in it, and
\* the directory is not in value
C8_Witness ==
  /\ only_files
  /\ widget = "FileSelector"
  /\ event.op = "update_value"
  /\ \E i \in 1..Len(event.arg) :
       /\ isdir(event.arg[i])
       /\ ~Member(event.arg[i], value)
  /\ value # <<>>

\* C9: with show_hidden off, the options a commit or refresh produced hold
\* no entry whose basename starts with a dot, scanned or selected, but for
\* the ascend entry.
C9_NoHiddenListed ==
  (widget = "FileSelector" /\ event.op \in Commits \cup {"init"} /\ raised = ""
   /\ ~show_hidden)
    => \A i \in 1..Len(selector_options) :
         \/ selector_options[i].path \in {Ascend, NotValid}
         \/ ~StartsWith(Basename(selector_options[i].path), <<".">>)

\* C9 witness: '/d' is listed with the pattern '*' while the hidden '/d/.h'
\* is selected
C9_Witness ==
  /\ event.op \in Commits
  /\ raised = ""
  /\ ~show_hidden
  /\ cwd = <<"d">>
  /\ file_pattern = <<"*">>
  /\ Member(<<"d", ".h">>, value)
  /\ <<"d", "a.t">> \in OptionPaths

(***************************************************************************)
(* Properties of the tree.                                                 *)
(***************************************************************************)
\* the depth of a node below the directory of the tree: its children are at 1
DepthOf(node) == Len(node.id) - Len(directory)

\* the folder nodes of the tree below its root node
Folders ==
  SelectSeq(Flat(nodes), LAMBDA n : n.type = "folder" /\ n.parent # None)

\* C11: in a tree with max_depth = d > 0 a folder node is disabled and has no
\* children if and only if its depth below the root exceeds d; with
\* max_depth = 0 no node is disabled.
C11_DisabledIffDeeperThanMax ==
  widget = "FileTree"
    => \A i \in 1..Len(Folders) :
         IF max_depth = 0 THEN ~Folders[i].disabled
         ELSE (Folders[i].disabled /\ Folders[i].children = <<>>)
                <=> DepthOf(Folders[i]) > max_depth

\* C18: no two nodes of the tree have the same id.
C18_NodeIdsUnique ==
  widget = "FileTree"
    => \A i, j \in 1..Len(Flat(nodes)) :
         Flat(nodes)[i].id = Flat(nodes)[j].id => i = j

(***************************************************************************)
(* Properties of the local listing.                                        *)
(***************************************************************************)
\* the elements of a sequence
Elements(seq) == { seq[i] : i \in 1..Len(seq) }

\* the direct children of a directory: the entries stored under the
\* directory it resolves to, named below path
Children(path) ==
  { Append(path, FsEntries[i].path[Len(FsEntries[i].path)]) :
      i \in { j \in FsIndex : Parent(FsEntries[j].path) = realpath(path) } }

\* C12: the files of a listing are exactly the direct children that are files
\* and whose basename matches the pattern, its dirs hold every direct child
\* that is a directory and only direct children; a path that is not a
\* directory gives two empty lists.
C12_ListsDirectChildren ==
  listing.called =>
    IF isdir(listing.path)
      THEN /\ Elements(listing.files) =
                { c \in Children(listing.path) :
                    isfile(c) /\ fnmatch(Basename(c), listing.pattern) }
           /\ { c \in Children(listing.path) : isdir(c) } \subseteq Elements(listing.dirs)
           /\ Elements(listing.dirs) \subseteq Children(listing.path)
    ELSE listing.dirs = <<>> /\ listing.files = <<>>

\* C12 witness: '/d' listed with '*.t' gives the file 'a.t' and the directory
\* 's', and not 'b.c'
C12_Witness ==
  /\ listing.called
  /\ listing.path = <<"d">>
  /\ listing.pattern = <<"*", ".", "t">>
  /\ listing.files = << <<"d", "a.t">> >>
  /\ <<"d", "s">> \in Elements(listing.dirs)

(***************************************************************************)
(* Properties of the history.                                              *)
(***************************************************************************)
\* the directory a commit is for: the normalized text of the directory field
Target == normalize(dir_value)

\* the history and the position are as the push rule leaves them for target
PushRule(target) ==
  IF isdir(target) /\ (stack = <<>> \/ target # stack[Len(stack)])
    THEN stack' = Append(stack, target) /\ position' = position + 1
  ELSE stack' = stack /\ position' = position

C14_RecoversFromInvalidPath ==
  [][ (ShowsNotValid /\ selector_disabled /\ event'.op = "go" /\ isdir(Target'))
      => (/\ ~selector_disabled'
          /\ cwd' = Target'
          /\ selector_options' = Listing(Self', Target')) ]_vars

\* C20: in every state the history is not empty and current_directory is
\* the entry of the history at position.
C20_CurrentIsHistoryAtPosition ==
  /\ stack # <<>>
  /\ 0 <= position /\ position < Len(stack)
  /\ cwd = stack[position + 1]

(***************************************************************************)
(* Properties of the periodic timer.                                       *)
(***************************************************************************)
\* the period is a positive interval
Positive(period) == period # NoPeriod /\ period[1] > 0

\* C15: after construction and after every assignment of refresh_period the
\* timer is running if and only if refresh_period is a positive interval; no
\* handler starts a running timer or stops a stopped one.
C15_TimerRunsIffPositivePeriod ==
  [][ /\ periodic_running <=> Positive(refresh_period)
      /\ periodic_running' <=> Positive(refresh_period')
      /\ periodic_call' = "start" => ~periodic_running
      /\ periodic_call' = "stop" => periodic_running ]_vars

(***************************************************************************)
(* Properties of the up control and of the denylist.                       *)
(***************************************************************************)
\* C16: after every commit of a valid directory and every refresh the up
\* button is disabled if and only if current_directory is the root directory,
\* and the ascend entry is the first option when current_directory is not the
\* root, and no option at the root.
C16_UpDisabledIffAtRoot ==
  (widget = "FileSelector" /\ event.op \in Commits \cup {"init"} /\ raised = ""
   /\ ~ShowsNotValid)
    => /\ up_disabled <=> cwd = Root
       /\ \A i \in 1..Len(selector_options) :
            selector_options[i].path = Ascend <=> (i = 1 /\ cwd # Root)
       /\ cwd # Root => selector_options # <<>>

\* C16 witness: the up from '/d/s' has reached the root '/d', where the up
\* button is disabled and no ascend entry is listed
C16_Witness ==
  /\ event.op = "up"
  /\ cwd = <<"d">>
  /\ Root = <<"d">>
  /\ up_disabled
  /\ selector_options # <<>>
  /\ Ascend \notin OptionPaths

\* the paths the scan of current_directory gives with the file pattern
Scanned == Elements(ls_dirs(cwd)) \cup Elements(ls_files(cwd, file_pattern))

\* C17: when the selection shown by the selector changes, the options become
\* the previous options that are in the scan of current_directory or in
\* value, and the ascend entry when current_directory is not the root: an
\* unselected path that is not a child of current_directory leaves the
\* options and with them the list of unselected entries, a path still in
\* value stays.
C17_DenylistKeepsScannedOrSelected ==
  [][ (widget = "FileSelector" /\ event'.op = "update_value")
      => /\ OptionPaths' =
              { p \in OptionPaths \ {Ascend} : p \in Scanned \/ Member(p, value') }
              \cup (IF cwd # Root THEN {Ascend} ELSE {})
         /\ \A p \in OptionPaths \ {Ascend} :
              (~Member(p, value') /\ p \notin Children(cwd)) => p \notin OptionPaths'
         /\ \A p \in OptionPaths : Member(p, value') => p \in OptionPaths' ]_vars

\* C17 witness: a selected path outside current_directory was unselected and
\* has left the options, while another one, still selected, is listed
C17_Witness ==
  /\ event.op = "update_value"
  /\ \E y \in Elements(event.old) :
       /\ ~Member(y, value)
       /\ Parent(y) # cwd
       /\ y \notin OptionPaths
  /\ \E x \in Elements(value) : Parent(x) # cwd /\ x \in OptionPaths

\* C19: of the direct children of a listed directory, a symbolic link whose
\* target is a directory is in dirs, a symbolic link whose target is a file
\* is in dirs too, and a symbolic link whose target is neither is in neither
\* dirs nor files.
C19_LinksAreListedAsDirs ==
  (listing.called /\ isdir(listing.path))
    => \A c \in Children(listing.path) :
         islink(c) =>
           IF isdir(realpath(c)) \/ isfile(realpath(c))
             THEN c \in Elements(listing.dirs)
           ELSE c \notin Elements(listing.dirs) /\ c \notin Elements(listing.files)

\* C19 witness: '/e' is listed: its link to a directory and its link to a
\* file are in dirs, its broken link is in neither list
C19_Witness ==
  /\ listing.called
  /\ listing.path = <<"e">>
  /\ islink(<<"e", "ld">>) /\ isdir(realpath(<<"e", "ld">>))
  /\ islink(<<"e", "lf">>) /\ isfile(realpath(<<"e", "lf">>))
  /\ islink(<<"e", "lb">>) /\ ~Exists(<<"e", "lb">>)
  /\ <<"e", "ld">> \in Elements(listing.dirs)
  /\ <<"e", "lf">> \in Elements(listing.dirs)
  /\ <<"e", "lb">> \notin Elements(listing.dirs) \cup Elements(listing.files)

====
